---------------------------- MODULE Spec2Model ----------------------------
(***************************************************************************)
(* QLevelDB: the QML session controller over a LevelDB storage engine.     *)
(*                                                                         *)
(* The controller (qleveldb.cpp) is modelled from its code.  The storage   *)
(* engine behind leveldb::DB, the batch object QLevelDBBatch and the JSON  *)
(* codec of global.h are not part of the sources at hand; they are         *)
(* modelled from the specification's sections 4.1 - 4.3.                   *)
(***************************************************************************)
EXTENDS Integers, Sequences, FiniteSets, TLC

(***************************************************************************)
(* Bounds and input sets                                                   *)
(***************************************************************************)
MaxOps == 2                     \* staged operations per batch object

Ctrls == {"c1", "c2"}           \* QLevelDB instances in the process
Paths == {"p1", "p2"}           \* database directories
NoPath == ""                    \* toLocalFile() of a URL that is no local file
NULL == "null"                  \* nullptr

EmptyUrl == "url:"              \* QUrl()
RemoteUrl == "http://x"         \* a URL that is not a local file
Urls == {EmptyUrl, RemoteUrl, "file:p1", "file:p2"}

\* QUrl::isLocalFile
isLocalFile(url) == url \in {"file:p1", "file:p2"}

\* QUrl::toLocalFile: the path of a local file URL, else the empty string
toLocalFile(url) ==
    IF url = "file:p1" THEN "p1" ELSE IF url = "file:p2" THEN "p2" ELSE NoPath

\* QString keys as sequences of UTF-16 code units: "a" and U+00E9
Keys == {<<97>>, <<233>>}

RECURSIVE toStdString(_)
\* QString::toStdString: the UTF-8 bytes of the string (code units below
\* U+0800 only)
toStdString(s) ==
    IF s = <<>> THEN <<>>
    ELSE LET u == Head(s)
         IN  (IF u < 128 THEN <<u>>
              ELSE <<192 + (u \div 64), 128 + (u % 64)>>)
             \o toStdString(Tail(s))

EncKeys == {toStdString(k) : k \in Keys}

(***************************************************************************)
(* Values (QVariant) and the codec                                         *)
(***************************************************************************)
VStr(s)     == [t |-> "string", s |-> s, e |-> <<>>]
VList(es)   == [t |-> "list", s |-> "", e |-> es]
VObj(k, v)  == [t |-> "object", s |-> k, e |-> <<v>>]
Undefined   == [t |-> "undefined", s |-> "", e |-> <<>>]      \* QVariant()
RBool(b)    == [t |-> "bool", s |-> IF b THEN "true" ELSE "false", e |-> <<>>]
RNull       == [t |-> "nullptr", s |-> "", e |-> <<>>]
RBatch      == [t |-> "batch", s |-> "", e |-> <<>>]
RVoid       == [t |-> "void", s |-> "", e |-> <<>>]

\* a call, the controller it was made on and the value it returned
Ret(op, c, val) == [op |-> op, c |-> c, val |-> val]
PutName(sync) == IF sync THEN "putSync" ELSE "put"

\* application values handed to put(): a string, a list, a mapping
Values == {VStr("x"), VList(<<"x">>), VObj("x", "y")}
\* the values the workload writes
PutValues == {VStr("x"), VList(<<"x">>)}

Quote(s) == <<"'", s, "'">>

\* variantToJson: JSON text as a sequence of tokens
variantToJson(v) ==
    CASE v.t = "string" -> Quote(v.s)
      [] v.t = "list"   -> <<"[">> \o
                           (IF v.e = <<>> THEN <<>> ELSE Quote(v.e[1])) \o <<"]">>
      [] v.t = "object" -> <<"{">> \o Quote(v.s) \o <<":">> \o Quote(v.e[1])
                           \o <<"}">>
      [] OTHER          -> <<"null">>

\* jsonToVariant: the inverse of variantToJson; malformed text decodes to an
\* invalid QVariant
jsonToVariant(j) ==
    IF \E v \in Values : variantToJson(v) = j
    THEN CHOOSE v \in Values : variantToJson(v) = j
    ELSE Undefined

Absent == <<"absent">>          \* no record for the key

\* what the ghost lastWrite records for a key that was never written or
\* whose most recent committed write is a delete
NoValue == [t |-> "novalue", s |-> "", e |-> <<>>]

(***************************************************************************)
(* leveldb::Status and QLevelDB::Status                                    *)
(***************************************************************************)
\* leveldb::Status::ToString, shortened to the class of the message
StatusToString(st) ==
    CASE st = "ok"              -> "OK"
      [] st = "notfound"        -> "NotFound: "
      [] st = "corruption"      -> "Corruption: "
      [] st = "ioerror"         -> "IO error: "
      [] st = "invalidargument" -> "Invalid argument: "

\* parseStatusCode without the IOError test
parseStatusCodeNoIOError(st) ==
    IF st = "ok" THEN "Ok"
    ELSE IF st = "corruption" THEN "Corruption"
    ELSE IF st = "notfound" THEN "NotFound"
    ELSE "Undefined"

\* parseStatusCode ending in `return Status::Ok`
parseStatusCodeOkDefault(st) ==
    IF st = "ok" THEN "Ok"
    ELSE IF st = "corruption" THEN "Corruption"
    ELSE IF st = "ioerror" THEN "IOError"
    ELSE IF st = "notfound" THEN "NotFound"
    ELSE "Ok"

\* QLevelDB::parseStatusCode
parseStatusCode(st) ==
    IF st = "ok" THEN "Ok"
    ELSE IF st = "corruption" THEN "Corruption"
    ELSE IF st = "ioerror" THEN "IOError"
    ELSE IF st = "notfound" THEN "NotFound"
    ELSE "Undefined"

\* QLevelDBOptions: the two switches that decide the outcome of an open
Options == [createIfMissing : BOOLEAN, errorIfExists : BOOLEAN]

\* errors of an open against the empty path
BadPathErrors == {"ioerror", "invalidargument"}
\* the error an open of `path` draws when the path is bad
PathErrors(path) == IF path \in Paths THEN {"ioerror"} ELSE BadPathErrors

VARIABLES
    proc,           \* "running", "segv" (killed by a fault), "killed"
    m_source,       \* controller -> URL
    m_levelDB,      \* controller -> the path its engine handle holds, or NULL
    m_opened,       \* controller -> BOOLEAN
    m_status,       \* controller -> QLevelDB::Status
    m_statusText,   \* controller -> text
    m_batch,        \* controller -> "null", "live", "scheduled", "deleted"
    bDB,            \* batch of a controller: path of the handle it captured
    bStale,         \* batch of a controller: that handle has been deleted
    bOps,           \* batch of a controller: staged operations
    bDone,          \* batch of a controller: written
    exists,         \* path -> the database directory exists
    table,          \* path -> [EncKeys -> JSON text or Absent]
    walTail,        \* path -> the unsealed record at the end of the log
    writing,        \* controller whose batch commit is in progress, or NULL
    ret,            \* the last call that returned and what it returned
    lastWrite,      \* path -> key -> the value last written, or NoValue
    cut,            \* the batch commit a kill interrupted: its database, its
                    \* operations (until recovery), their number, how many
                    \* of them the log held, and "pending" or "recovered"
    live,           \* the leveldb::DB objects on the heap, by the path each
                    \* one holds
    destroyed       \* path -> DestroyDB removed the database and no open has
                    \* created it again

vars == <<proc, m_source, m_levelDB, m_opened, m_status, m_statusText,
          m_batch, bDB, bStale, bOps, bDone, exists, table, walTail,
          writing, ret, lastWrite, cut, live, destroyed>>

ctrlVars == <<m_source, m_levelDB, m_opened, m_status, m_statusText>>
batchVars == <<m_batch, bDB, bStale, bOps, bDone>>
diskVars == <<exists, table, walTail>>
heapVars == <<live, destroyed>>

EmptyTable == [k \in EncKeys |-> Absent]
NeverWritten == [k \in EncKeys |-> NoValue]
\* no interrupted commit on record
NoCut == [path |-> NoPath, ops |-> <<>>, n |-> 0, done |-> 0, phase |-> "none"]

\* QLevelDB::QLevelDB
Constructed ==
    /\ m_source = [c \in Ctrls |-> EmptyUrl]
    /\ m_levelDB = [c \in Ctrls |-> NULL]
    /\ m_opened = [c \in Ctrls |-> FALSE]
    /\ m_status = [c \in Ctrls |-> "Undefined"]
    /\ m_statusText = [c \in Ctrls |-> ""]
    /\ m_batch = [c \in Ctrls |-> "null"]
    /\ bDB = [c \in Ctrls |-> NULL]
    /\ bStale = [c \in Ctrls |-> FALSE]
    /\ bOps = [c \in Ctrls |-> <<>>]
    /\ bDone = [c \in Ctrls |-> FALSE]

Init ==
    /\ proc = "running"
    /\ Constructed
    /\ exists = [p \in Paths |-> FALSE]
    /\ table = [p \in Paths |-> EmptyTable]
    /\ walTail = [p \in Paths |-> <<>>]
    /\ writing = NULL
    /\ ret = Ret("none", NULL, RVoid)
    /\ lastWrite = [p \in Paths |-> NeverWritten]
    /\ cut = NoCut
    /\ live = {}
    /\ destroyed = [p \in Paths |-> FALSE]

(***************************************************************************)
(* Storage engine (specification section 4.1)                              *)
(***************************************************************************)
\* the path lock: some handle of the process holds the path
Locked(h, path) == \E d \in Ctrls : h[d] = path

\* an open that creates a missing database whatever createIfMissing says
DBOpenStatusCreates(h, opts, path, err) ==
    IF path \notin Paths THEN err
    ELSE IF Locked(h, path) THEN "ioerror"
    ELSE IF ~exists[path] THEN "ok"
    ELSE IF opts.errorIfExists THEN "invalidargument"
    ELSE "ok"

\* leveldb::DB::Open: the status of an open of `path` while the handles h
\* are live
DBOpenStatus(h, opts, path, err) ==
    IF path \notin Paths THEN err
    ELSE IF Locked(h, path) THEN "ioerror"
    ELSE IF ~exists[path]
         THEN IF opts.createIfMissing THEN "ok" ELSE "notfound"
    ELSE IF opts.errorIfExists THEN "invalidargument"
    ELSE "ok"


\* one staged operation applied to a table
ApplyOp(tbl, op) ==
    IF op.o = "batch.put" THEN [tbl EXCEPT ![op.k] = op.j]
    ELSE [tbl EXCEPT ![op.k] = Absent]

RECURSIVE ApplyOpsReversed(_, _)
\* the operations of a batch applied last to first
ApplyOpsReversed(tbl, ops) ==
    IF ops = <<>> THEN tbl
    ELSE ApplyOp(ApplyOpsReversed(tbl, Tail(ops)), Head(ops))

RECURSIVE ApplyOps(_, _)
\* leveldb::DB::Write: the operations of a batch applied in staging order
ApplyOps(tbl, ops) ==
    IF ops = <<>> THEN tbl
    ELSE ApplyOps(ApplyOp(tbl, Head(ops)), Tail(ops))

\* the ghost record of the last write per key follows the same operations
NoteOp(lw, op) ==
    IF op.o = "batch.put" THEN [lw EXCEPT ![op.k] = op.v]
    ELSE [lw EXCEPT ![op.k] = NoValue]

RECURSIVE NoteOps(_, _)
NoteOps(lw, ops) ==
    IF ops = <<>> THEN lw
    ELSE NoteOps(NoteOp(lw, Head(ops)), Tail(ops))

\* recovery that replays the unsealed record at the end of the log
RecoverReplay(path) == ApplyOps(table[path], walTail[path])

\* crash recovery at open: sealed log records are in the table already, the
\* unsealed record at the end of the log is dropped
Recover(path) == table[path]

PutOp(k, v) == [o |-> "batch.put", k |-> toStdString(k), j |-> variantToJson(v), v |-> v]
DelOp(k)    == [o |-> "batch.del", k |-> toStdString(k), j |-> Absent, v |-> NoValue]

\* a write to the database, its destruction or a new batch on it ends the
\* bookkeeping of an interrupted commit
CutAfterWrite(path) == IF cut.path = path THEN NoCut ELSE cut

(***************************************************************************)
(* Controller (qleveldb.cpp)                                               *)
(***************************************************************************)
Running == proc = "running" /\ writing = NULL

\* a reset that leaves the pointer as it is
ResetHandleKeeps(c) == m_levelDB

\* QLevelDB::reset: the handle is deleted and the pointer cleared
ResetHandle(c) == [m_levelDB EXCEPT ![c] = NULL]

\* the batch object of c keeps the pointer that reset() has just deleted
StaleAfterReset(c) ==
    IF m_levelDB[c] # NULL /\ m_batch[c] \in {"live", "scheduled"}
    THEN [bStale EXCEPT ![c] = TRUE]
    ELSE bStale

\* a reset that clears the pointer without deleting the object
DeleteHandleNever(c) == live

\* QLevelDB::reset: delete m_levelDB
DeleteHandle(c) == live \ {m_levelDB[c]}

\* QLevelDB::openDatabase
openDatabase(c, localPath, opts, err) ==
    LET h  == ResetHandle(c)
        st == DBOpenStatus(h, opts, localPath, err)
    IN  /\ m_levelDB' = IF st = "ok" THEN [h EXCEPT ![c] = localPath] ELSE h
        /\ live' = IF st = "ok" THEN DeleteHandle(c) \cup {localPath}
                   ELSE DeleteHandle(c)
        /\ bStale' = StaleAfterReset(c)
        /\ m_opened' = [m_opened EXCEPT ![c] = (st = "ok")]
        /\ m_statusText' = [m_statusText EXCEPT ![c] = StatusToString(st)]
        /\ m_status' = [m_status EXCEPT ![c] = parseStatusCode(st)]
        /\ ret' = Ret("openDatabase", c, RBool(st = "ok"))
        /\ IF st = "ok"
           THEN /\ exists' = [exists EXCEPT ![localPath] = TRUE]
                /\ table' = [table EXCEPT ![localPath] = Recover(localPath)]
                /\ walTail' = [walTail EXCEPT ![localPath] = <<>>]
                /\ cut' = IF cut.path = localPath
                          THEN [cut EXCEPT !.ops = <<>>, !.phase = "recovered"]
                          ELSE cut
                /\ destroyed' = [destroyed EXCEPT ![localPath] = FALSE]
           ELSE UNCHANGED <<exists, table, walTail, cut, destroyed>>
        /\ UNCHANGED <<proc, m_batch, bDB, bOps, bDone, writing, lastWrite>>

\* QLevelDB::componentComplete
componentComplete(c, opts, err) ==
    /\ Running
    /\ openDatabase(c, toLocalFile(m_source[c]), opts, err)
    /\ UNCHANGED m_source

\* setSource without the call of openDatabase
setSourceNoOpen(c, source, opts, err) ==
    /\ Running
    /\ m_source' = [m_source EXCEPT ![c] = source]
    /\ ret' = Ret("setSource", c, RVoid)
    /\ UNCHANGED <<proc, m_levelDB, m_opened, m_status, m_statusText,
                   batchVars, diskVars, writing, lastWrite, cut, heapVars>>

\* setSource without the comparison with the current source
setSourceAlways(c, source, opts, err) ==
    /\ Running
    /\ m_source' = [m_source EXCEPT ![c] = source]
    /\ openDatabase(c, toLocalFile(source), opts, err)

\* QLevelDB::setSource
setSource(c, source, opts, err) ==
    /\ Running
    /\ IF m_source[c] # source
       THEN /\ m_source' = [m_source EXCEPT ![c] = source]
            /\ openDatabase(c, toLocalFile(source), opts, err)
       ELSE /\ ret' = Ret("setSource", c, RVoid)
            /\ UNCHANGED <<proc, ctrlVars, batchVars, diskVars, writing,
                           lastWrite, cut, heapVars>>

\* putBody with the engine's status dropped: the call returns true and is
\* taken as a committed write whether or not the engine stored the record
putBodyIgnoresStatus(c, key, value, sync, ok) ==
    LET json == variantToJson(value)
        p    == m_levelDB[c]
        k    == toStdString(key)
    IN  IF m_opened[c] /\ m_levelDB[c] # NULL
        THEN /\ ret' = Ret(PutName(sync), c, RBool(TRUE))
             /\ table' = IF ok THEN [table EXCEPT ![p][k] = json] ELSE table
             /\ lastWrite' = [lastWrite EXCEPT ![p][k] = value]
             /\ cut' = CutAfterWrite(p)
        ELSE /\ ret' = Ret(PutName(sync), c, RBool(FALSE))
             /\ UNCHANGED <<table, lastWrite, cut>>

\* QLevelDB::put and QLevelDB::putSync share one body; sync is
\* WriteOptions::sync, ok is whether the engine's Put succeeds.
putBody(c, key, value, sync, ok) ==
    LET json == variantToJson(value)
        p    == m_levelDB[c]
        k    == toStdString(key)
    IN  IF m_opened[c] /\ m_levelDB[c] # NULL
        THEN /\ ret' = Ret(PutName(sync), c, RBool(ok))
             /\ IF ok
                THEN /\ table' = [table EXCEPT ![p][k] = json]
                     /\ lastWrite' = [lastWrite EXCEPT ![p][k] = value]
                     /\ cut' = CutAfterWrite(p)
                ELSE UNCHANGED <<table, lastWrite, cut>>
        ELSE /\ ret' = Ret(PutName(sync), c, RBool(FALSE))
             /\ UNCHANGED <<table, lastWrite, cut>>

\* QLevelDB::put
put(c, key, value, ok) ==
    /\ Running
    /\ putBody(c, key, value, FALSE, ok)
    /\ UNCHANGED <<proc, ctrlVars, batchVars, exists, walTail, writing,
                   heapVars>>

\* QLevelDB::putSync
putSync(c, key, value, ok) ==
    /\ Running
    /\ putBody(c, key, value, TRUE, ok)
    /\ UNCHANGED <<proc, ctrlVars, batchVars, exists, walTail, writing,
                   heapVars>>

\* get with the key converted by toLatin1 instead of toStdString: one byte
\* per code unit
GetValueLatin1(c, key, defaultValue) ==
    IF m_opened[c] /\ m_levelDB[c] # NULL
    THEN LET value == IF key \in EncKeys THEN table[m_levelDB[c]][key]
                      ELSE Absent
         IN  IF value # Absent THEN jsonToVariant(value) ELSE Undefined
    ELSE Undefined

\* what QLevelDB::get returns; the second argument of a call from QML has no
\* parameter to bind to
GetValue(c, key, defaultValue) ==
    IF m_opened[c] /\ m_levelDB[c] # NULL
    THEN LET value == table[m_levelDB[c]][toStdString(key)]
         IN  IF value # Absent THEN jsonToVariant(value) ELSE Undefined
    ELSE Undefined

\* QLevelDB::get
get(c, key, defaultValue) ==
    /\ Running
    /\ ret' = Ret("get", c, GetValue(c, key, defaultValue))
    /\ UNCHANGED <<proc, ctrlVars, batchVars, diskVars, writing, lastWrite, cut,
                   heapVars>>

\* the process is gone: every controller and batch object with it, and the
\* path locks are released
ProcessGone ==
    /\ m_source' = [c \in Ctrls |-> EmptyUrl]
    /\ m_levelDB' = [c \in Ctrls |-> NULL]
    /\ m_opened' = [c \in Ctrls |-> FALSE]
    /\ m_status' = [c \in Ctrls |-> "Undefined"]
    /\ m_statusText' = [c \in Ctrls |-> ""]
    /\ m_batch' = [c \in Ctrls |-> "null"]
    /\ bDB' = [c \in Ctrls |-> NULL]
    /\ bStale' = [c \in Ctrls |-> FALSE]
    /\ bOps' = [c \in Ctrls |-> <<>>]
    /\ bDone' = [c \in Ctrls |-> FALSE]
    /\ writing' = NULL
    /\ ret' = Ret("none", NULL, RVoid)
    /\ live' = {}

\* a call through a null or dangling pointer: the process faults
Fault ==
    /\ proc' = "segv"
    /\ ProcessGone
    /\ UNCHANGED <<diskVars, lastWrite, cut, destroyed>>

\* del with the engine's status dropped: with a handle the call returns
\* true and is taken as a committed delete whether or not the engine
\* removed the record
delIgnoresStatus(c, key, outcome) ==
    /\ Running
    /\ IF m_levelDB[c] # NULL
       THEN LET p == m_levelDB[c]
                k == toStdString(key)
            IN  /\ outcome # "segv"
                /\ ret' = Ret("del", c, RBool(TRUE))
                /\ table' = IF outcome = "true"
                            THEN [table EXCEPT ![p][k] = Absent] ELSE table
                /\ lastWrite' = [lastWrite EXCEPT ![p][k] = NoValue]
                /\ cut' = CutAfterWrite(p)
                /\ UNCHANGED <<proc, ctrlVars, batchVars, exists, walTail,
                               writing, heapVars>>
       ELSE IF outcome = "segv"
            THEN Fault
            ELSE /\ ret' = Ret("del", c, RBool(outcome = "true"))
                 /\ UNCHANGED <<proc, ctrlVars, batchVars, diskVars, writing,
                                lastWrite, cut, heapVars>>

\* QLevelDB::del.  The handle is dereferenced unchecked.  With a handle,
\* outcome is whether the engine's Delete succeeds; with none the call is
\* undefined: the process faults ("segv") or the call returns either boolean.
del(c, key, outcome) ==
    /\ Running
    /\ IF m_levelDB[c] # NULL
       THEN LET p == m_levelDB[c]
                k == toStdString(key)
            IN  /\ outcome # "segv"
                /\ ret' = Ret("del", c, RBool(outcome = "true"))
                /\ IF outcome = "true"
                   THEN /\ table' = [table EXCEPT ![p][k] = Absent]
                        /\ lastWrite' = [lastWrite EXCEPT ![p][k] = NoValue]
                        /\ cut' = CutAfterWrite(p)
                   ELSE UNCHANGED <<table, lastWrite, cut>>
                /\ UNCHANGED <<proc, ctrlVars, batchVars, exists, walTail,
                               writing, heapVars>>
       ELSE IF outcome = "segv"
            THEN Fault
            ELSE /\ ret' = Ret("del", c, RBool(outcome = "true"))
                 /\ UNCHANGED <<proc, ctrlVars, batchVars, diskVars, writing,
                                lastWrite, cut, heapVars>>

\* leveldb::DestroyDB: refused while a handle holds the path's lock
DestroyStatus(h, path) == IF Locked(h, path) THEN "ioerror" ELSE "ok"

\* QLevelDB::Status::InvalidArgument returned from a function returning bool
InvalidArgumentAsBool == TRUE

\* destroyDB without the reset of the controller's own source
destroyDBNoReset(c, path) ==
    /\ Running
    /\ IF ~isLocalFile(path)
       THEN /\ ret' = Ret("destroyDB", c, RBool(InvalidArgumentAsBool))
            /\ UNCHANGED <<proc, ctrlVars, batchVars, diskVars, writing,
                           lastWrite, cut, heapVars>>
       ELSE LET lp == toLocalFile(path)
                st == DestroyStatus(m_levelDB, lp)
            IN  /\ ret' = Ret("destroyDB", c, RBool(st = "ok"))
                /\ IF st = "ok"
                   THEN /\ exists' = [exists EXCEPT ![lp] = FALSE]
                        /\ table' = [table EXCEPT ![lp] = EmptyTable]
                        /\ walTail' = [walTail EXCEPT ![lp] = <<>>]
                        /\ lastWrite' = [lastWrite EXCEPT ![lp] = NeverWritten]
                        /\ cut' = CutAfterWrite(lp)
                        /\ destroyed' = [destroyed EXCEPT
                                           ![lp] = @ \/ exists[lp]]
                   ELSE UNCHANGED <<diskVars, lastWrite, cut, destroyed>>
                /\ UNCHANGED <<proc, ctrlVars, batchVars, writing, live>>

\* QLevelDB::destroyDB
destroyDB(c, path) ==
    /\ Running
    /\ IF ~isLocalFile(path)
       THEN /\ ret' = Ret("destroyDB", c, RBool(InvalidArgumentAsBool))
            /\ UNCHANGED <<proc, ctrlVars, batchVars, diskVars, writing,
                           lastWrite, cut, heapVars>>
       ELSE LET own == m_source[c] = path
                h   == IF own THEN ResetHandle(c) ELSE m_levelDB
                lp  == toLocalFile(path)
                st  == DestroyStatus(h, lp)
            IN  /\ m_levelDB' = h
                /\ live' = IF own THEN DeleteHandle(c) ELSE live
                /\ bStale' = IF own THEN StaleAfterReset(c) ELSE bStale
                /\ m_status' = IF own THEN [m_status EXCEPT ![c] = "Undefined"]
                               ELSE m_status
                /\ m_opened' = IF own THEN [m_opened EXCEPT ![c] = FALSE]
                               ELSE m_opened
                /\ m_statusText' = IF own THEN [m_statusText EXCEPT ![c] = ""]
                                   ELSE m_statusText
                /\ ret' = Ret("destroyDB", c, RBool(st = "ok"))
                /\ IF st = "ok"
                   THEN /\ exists' = [exists EXCEPT ![lp] = FALSE]
                        /\ table' = [table EXCEPT ![lp] = EmptyTable]
                        /\ walTail' = [walTail EXCEPT ![lp] = <<>>]
                        /\ lastWrite' = [lastWrite EXCEPT ![lp] = NeverWritten]
                        /\ cut' = CutAfterWrite(lp)
                        /\ destroyed' = [destroyed EXCEPT
                                           ![lp] = @ \/ exists[lp]]
                   ELSE UNCHANGED <<diskVars, lastWrite, cut, destroyed>>
                /\ UNCHANGED <<proc, m_source, m_batch, bDB, bOps, bDone,
                               writing>>

\* leveldb::RepairDB: there is nothing to scan where no database is; ok is
\* whether the scan of an existing one succeeds
RepairStatus(path, ok) == IF exists[path] /\ ok THEN "ok" ELSE "ioerror"

\* QLevelDB::repairDB.  A repair rebuilds the manifest from the tables and
\* the sealed log records; the unsealed record at the end of the log is
\* dropped.
repairDB(c, path, ok) ==
    /\ Running
    /\ IF ~isLocalFile(path)
       THEN /\ ret' = Ret("repairDB", c, RBool(InvalidArgumentAsBool))
            /\ UNCHANGED walTail
       ELSE LET lp == toLocalFile(path)
                st == RepairStatus(lp, ok)
            IN  /\ ret' = Ret("repairDB", c, RBool(st = "ok"))
                /\ walTail' = IF st = "ok" THEN [walTail EXCEPT ![lp] = <<>>]
                              ELSE walTail
    /\ UNCHANGED <<proc, ctrlVars, batchVars, exists, table, writing,
                   lastWrite, cut, heapVars>>

(***************************************************************************)
(* Batch objects (QLevelDB::batch; QLevelDBBatch per specification 4.2)    *)
(***************************************************************************)
\* the batch object m_batch points at is alive
BatchAlive(c) == m_batch[c] \in {"live", "scheduled"}

\* QLevelDB::batch.  m_batch is never cleared when the object it points at
\* is deleted, so deleteLater() may be called through a dangling pointer:
\* that call is undefined (outcome "segv", or it passes without effect).
batch(c, outcome) ==
    /\ Running
    /\ IF m_batch[c] = "deleted" /\ outcome = "segv"
       THEN Fault
       ELSE /\ IF m_levelDB[c] = NULL
               THEN /\ ret' = Ret("batch", c, RNull)
                    /\ m_batch' = [m_batch EXCEPT
                                     ![c] = IF @ = "live" THEN "scheduled" ELSE @]
                    /\ UNCHANGED <<bDB, bStale, bOps, bDone>>
               ELSE /\ ret' = Ret("batch", c, RBatch)
                    /\ m_batch' = [m_batch EXCEPT ![c] = "live"]
                    /\ bDB' = [bDB EXCEPT ![c] = m_levelDB[c]]
                    /\ bStale' = [bStale EXCEPT ![c] = FALSE]
                    /\ bOps' = [bOps EXCEPT ![c] = <<>>]
                    /\ bDone' = [bDone EXCEPT ![c] = FALSE]
            /\ cut' = IF m_levelDB[c] = NULL THEN cut
                      ELSE CutAfterWrite(m_levelDB[c])
            /\ UNCHANGED <<proc, ctrlVars, diskVars, writing, lastWrite,
                           heapVars>>

\* the event loop delivers the deferred delete of a batch object
deferredDelete(c) ==
    /\ Running
    /\ m_batch[c] = "scheduled"
    /\ m_batch' = [m_batch EXCEPT ![c] = "deleted"]
    /\ bDB' = [bDB EXCEPT ![c] = NULL]
    /\ bStale' = [bStale EXCEPT ![c] = FALSE]
    /\ bOps' = [bOps EXCEPT ![c] = <<>>]
    /\ bDone' = [bDone EXCEPT ![c] = FALSE]
    /\ UNCHANGED ret
    /\ UNCHANGED <<proc, ctrlVars, diskVars, writing, lastWrite, cut,
                   heapVars>>

\* staging that writes through to the database at once
stageWriteThrough(c, op) ==
    /\ Running
    /\ BatchAlive(c)
    /\ Len(bOps[c]) < MaxOps
    /\ bOps' = [bOps EXCEPT ![c] = IF bDone[c] THEN @ ELSE Append(@, op)]
    /\ table' = [table EXCEPT ![bDB[c]] = ApplyOp(@, op)]
    /\ ret' = Ret(op.o, c, RBatch)
    /\ UNCHANGED <<proc, ctrlVars, m_batch, bDB, bStale, bDone, exists,
                   walTail, writing, lastWrite, cut, heapVars>>

\* staging on a batch: refused once the batch has been committed
stage(c, op) ==
    /\ Running
    /\ BatchAlive(c)
    /\ Len(bOps[c]) < MaxOps
    /\ bOps' = [bOps EXCEPT ![c] = IF bDone[c] THEN @ ELSE Append(@, op)]
    /\ ret' = Ret(op.o, c, RBatch)
    /\ UNCHANGED <<proc, ctrlVars, m_batch, bDB, bStale, bDone, diskVars,
                   writing, lastWrite, cut, heapVars>>

\* QLevelDBBatch::put
batchPut(c, key, value) == stage(c, PutOp(key, value))

\* QLevelDBBatch::del
batchDel(c, key) == stage(c, DelOp(key))

\* QLevelDBBatch::write, first step.  A batch whose handle has been deleted
\* writes through a dangling pointer: undefined (the process faults, or the
\* call returns either boolean without effect).  Otherwise outcome is
\* whether the engine accepts the commit: "true" starts it, "false" is an
\* engine error.  A second write of a committed batch is refused.
batchWrite(c, outcome) ==
    /\ Running
    /\ BatchAlive(c)
    /\ IF bStale[c]
       THEN IF outcome = "segv"
            THEN Fault
            ELSE /\ ret' = Ret("write", c, RBool(outcome = "true"))
                 /\ UNCHANGED <<proc, ctrlVars, batchVars, diskVars, writing,
                                lastWrite, cut, heapVars>>
       ELSE /\ outcome # "segv"
            /\ IF bDone[c] \/ outcome = "false"
               THEN /\ ret' = Ret("write", c, RBool(FALSE))
                    /\ UNCHANGED <<proc, ctrlVars, batchVars, diskVars,
                                   writing, lastWrite, cut, heapVars>>
               ELSE /\ writing' = c
                    /\ UNCHANGED <<proc, ctrlVars, batchVars, diskVars, ret,
                                   lastWrite, cut, heapVars>>

\* the commit appends the next staged operation to the record at the end of
\* the log
writeAppend(c) ==
    /\ proc = "running"
    /\ writing = c
    /\ Len(walTail[bDB[c]]) < Len(bOps[c])
    /\ walTail' = [walTail EXCEPT
                     ![bDB[c]] = Append(@, bOps[c][Len(@) + 1])]
    /\ UNCHANGED <<proc, ctrlVars, batchVars, exists, table, writing, ret,
                   lastWrite, cut, heapVars>>

\* the record is complete: it is sealed, its operations become visible in
\* staging order, and write() returns true
writeSeal(c) ==
    /\ proc = "running"
    /\ writing = c
    /\ Len(walTail[bDB[c]]) = Len(bOps[c])
    /\ table' = [table EXCEPT ![bDB[c]] = ApplyOps(@, walTail[bDB[c]])]
    /\ walTail' = [walTail EXCEPT ![bDB[c]] = <<>>]
    /\ lastWrite' = [lastWrite EXCEPT ![bDB[c]] = NoteOps(@, bOps[c])]
    /\ cut' = CutAfterWrite(bDB[c])
    /\ bDone' = [bDone EXCEPT ![c] = TRUE]
    /\ writing' = NULL
    /\ ret' = Ret("write", c, RBool(TRUE))
    /\ UNCHANGED <<proc, ctrlVars, m_batch, bDB, bStale, bOps, exists,
                   heapVars>>

(***************************************************************************)
(* Process crash and restart                                               *)
(***************************************************************************)
\* the process is killed, possibly in the middle of a commit
kill ==
    /\ proc = "running"
    /\ proc' = "killed"
    /\ ProcessGone
    /\ cut' = IF writing # NULL
              THEN [path |-> bDB[writing], ops |-> bOps[writing],
                    n |-> Len(bOps[writing]),
                    done |-> Len(walTail[bDB[writing]]), phase |-> "pending"]
              ELSE cut
    /\ UNCHANGED <<diskVars, lastWrite, destroyed>>

\* a new process constructs its controllers
restart ==
    /\ proc # "running"
    /\ proc' = "running"
    /\ UNCHANGED <<ctrlVars, batchVars, diskVars, writing, ret, lastWrite, cut,
                   heapVars>>

Outcomes == {"segv", "true", "false"}
\* the default value handed to get()
Defaults == {VObj("x", "y")}

\* the calls a QML program makes on the controllers CS with URLs US and
\* keys KS, the event loop, and the commit steps of the engine
Calls(CS, US, KS) ==
    \/ \E c \in CS, o \in Options :
          \E e \in PathErrors(toLocalFile(m_source[c])) :
             componentComplete(c, o, e)
    \/ \E c \in CS, u \in US, o \in Options :
          \E e \in PathErrors(toLocalFile(u)) : setSource(c, u, o, e)
    \/ \E c \in CS, k \in KS, v \in PutValues, ok \in BOOLEAN :
          put(c, k, v, ok)
    \/ \E c \in CS, k \in KS, v \in PutValues, ok \in BOOLEAN :
          putSync(c, k, v, ok)
    \/ \E c \in CS, k \in KS, d \in Defaults : get(c, k, d)
    \/ \E c \in CS, k \in KS, x \in Outcomes : del(c, k, x)
    \/ \E c \in CS, u \in US : destroyDB(c, u)
    \/ \E c \in CS, u \in US, ok \in BOOLEAN : repairDB(c, u, ok)

BatchCalls(CS, KS, DS) ==
    \/ \E c \in CS, x \in Outcomes : batch(c, x)
    \/ \E c \in CS : deferredDelete(c)
    \/ \E c \in CS, k \in KS : batchPut(c, k, VStr("x"))
    \/ \E c \in CS, k \in DS : batchDel(c, k)
    \/ \E c \in CS, x \in Outcomes : batchWrite(c, x)
    \/ \E c \in CS : writeAppend(c)
    \/ \E c \in CS : writeSeal(c)

\* one controller on one database, with batches and process crashes
Next ==
    \/ Calls({"c1"}, {"file:p1"}, Keys)
    \/ BatchCalls({"c1"}, Keys, {<<97>>})
    \/ kill
    \/ restart

Spec == Init /\ [][Next]_vars

\* two controllers sharing the database directories
NextShared ==
    \/ Calls(Ctrls, Urls, {<<97>>})
    \/ restart

SpecShared == Init /\ [][NextShared]_vars

(***************************************************************************)
(* Properties                                                              *)
(***************************************************************************)
\* what get(k) shows on controller c
Visible(c, k) == GetValue(c, k, Undefined)

\* a read/write call on controller c: get, put, putSync, del or batch
RWCall(c) ==
    \/ \E k \in Keys, v \in PutValues, ok \in BOOLEAN :
          put(c, k, v, ok) \/ putSync(c, k, v, ok)
    \/ \E k \in Keys, d \in Defaults : get(c, k, d)
    \/ \E k \in Keys, x \in Outcomes : del(c, k, x)
    \/ \E x \in Outcomes : batch(c, x)

\* the not-ready outcome: false, no value, no batch
NotReady == {RBool(FALSE), Undefined, RNull}

\* C1: every read/write call on a controller that is not Open returns the
\* not-ready outcome and the process survives it.
C1_NotReady ==
    [][\A c \in Ctrls :
          (~m_opened[c] /\ RWCall(c))
             => (proc' = "running" /\ ret'.val \in NotReady)]_vars

\* C2: a put or putSync of (k, v) that returns true is followed by a get(k)
\* that returns v.
C2_PutGet ==
    [][\A c \in Ctrls, k \in Keys, v \in PutValues :
          ( /\ ret'.c = c
            /\ ret'.val = RBool(TRUE)
            /\ \E ok \in BOOLEAN : put(c, k, v, ok) \/ putSync(c, k, v, ok) )
             => Visible(c, k)' = v]_vars

\* a put has just returned true on an Open controller and a get of a key
\* last written with a value shows that value
C2_Witness ==
    \E c \in Ctrls, k \in Keys :
        /\ ret.op \in {"put", "putSync"} /\ ret.c = c /\ ret.val = RBool(TRUE)
        /\ m_opened[c]
        /\ Visible(c, k) \in PutValues
        /\ lastWrite[m_levelDB[c]][toStdString(k)] = Visible(c, k)

\* the record of key k on the database of an Open controller c
LastWritten(c, k) == lastWrite[m_levelDB[c]][toStdString(k)]

\* C3: on an Open controller get(k) returns exactly what the most recent
\* committed write to k (put, delete or batch commit) left: the value of a
\* put, nothing after a delete.
C3_LastWriterWins ==
    \A c \in Ctrls, k \in Keys :
        (proc = "running" /\ m_opened[c])
           => Visible(c, k) = IF LastWritten(c, k) = NoValue THEN Undefined
                              ELSE LastWritten(c, k)

\* a committed batch wrote one key more than once, its last operation on the
\* key a put, and get shows the value of that put
C3_Witness ==
    \E c \in Ctrls, k \in Keys :
        /\ m_opened[c] /\ bDone[c] /\ ~bStale[c]
        /\ ret = Ret("write", c, RBool(TRUE))
        /\ Len(bOps[c]) = 2
        /\ bOps[c][1] = DelOp(k)
        /\ bOps[c][2].o = "batch.put" /\ bOps[c][2].k = toStdString(k)
        /\ Visible(c, k) = bOps[c][2].v

\* C4: on an Open controller get(k) returns the not-found sentinel exactly
\* when k was never written or its most recent committed write is a delete.
C4_NotFound ==
    \A c \in Ctrls, k \in Keys :
        (proc = "running" /\ m_opened[c])
           => (Visible(c, k) = Undefined <=> LastWritten(c, k) = NoValue)

\* a del has just returned true on an Open controller whose database exists
\* and holds a value for another key; some key reads as not found
C4_Witness ==
    \E c \in Ctrls, k \in Keys, j \in Keys :
        /\ ret = Ret("del", c, RBool(TRUE))
        /\ m_opened[c]
        /\ Visible(c, k) = Undefined
        /\ Visible(c, j) # Undefined

\* C5: get(key, defaultValue) on an Open controller returns defaultValue
\* when the key is absent from the database.
C5_GetDefault ==
    [][\A c \in Ctrls, k \in Keys, d \in Defaults :
          ( /\ m_opened[c]
            /\ m_levelDB[c] # NULL
            /\ table[m_levelDB[c]][toStdString(k)] = Absent
            /\ get(c, k, d) )
             => ret'.val = d]_vars

\* the position of the last operation of ops on the encoded key ek, or 0
LastOpOn(ops, ek) ==
    LET I == {i \in 1..Len(ops) : ops[i].k = ek}
    IN  IF I = {} THEN 0 ELSE CHOOSE i \in I : \A j \in I : j <= i

\* C6: a batch is applied in staging order: after the commit every key
\* reads as its last staged operation left it (the value of a put, not
\* found after a del), and a key the batch did not stage reads as before.
C6_BatchOrder ==
    [][\A c \in Ctrls :
          (ret' = Ret("write", c, RBool(TRUE)) /\ writeSeal(c))
             => \A k \in Keys :
                   LET i == LastOpOn(bOps[c], toStdString(k))
                   IN  Visible(c, k)' =
                          IF i = 0 THEN Visible(c, k)
                          ELSE IF bOps[c][i].o = "batch.put" THEN bOps[c][i].v
                          ELSE Undefined]_vars

\* a batch of put(k, v) then del(k) has been committed over a database that
\* held k, and k reads as not found while the other key keeps its value
C6_Witness ==
    \E c \in Ctrls, k \in Keys, j \in Keys :
        /\ ret = Ret("write", c, RBool(TRUE))
        /\ m_opened[c] /\ bDone[c] /\ ~bStale[c]
        /\ bOps[c] = <<PutOp(k, VStr("x")), DelOp(k)>>
        /\ Visible(c, k) = Undefined
        /\ Visible(c, j) # Undefined

\* the value a table shows for key k
ValueIn(tbl, k) ==
    IF tbl[toStdString(k)] = Absent THEN Undefined
    ELSE jsonToVariant(tbl[toStdString(k)])

\* C7: the open that recovers a database after a kill interrupted a batch
\* commit shows either the map as it was before the commit or the map with
\* every operation of the batch applied.
C7_AllOrNothing ==
    [][\A c \in Ctrls :
          ( /\ cut.phase = "pending"
            /\ cut'.phase = "recovered"
            /\ ret' = Ret("openDatabase", c, RBool(TRUE)) )
             => LET before == table[cut.path]
                    after  == ApplyOps(before, cut.ops)
                IN  \/ \A k \in Keys : Visible(c, k)' = ValueIn(before, k)
                    \/ \A k \in Keys : Visible(c, k)' = ValueIn(after, k)]_vars

\* a controller is Open on a database recovered from a commit that was
\* killed after a part of its operations had reached the log
C7_Witness ==
    \E c \in Ctrls :
        /\ proc = "running"
        /\ cut.phase = "recovered"
        /\ m_opened[c] /\ m_levelDB[c] = cut.path
        /\ 0 < cut.done /\ cut.done < cut.n

\* a step between batch() and the return of write(): batch(), a staging
\* call, the start of write() or a log append, the process surviving it
BatchStep(c) ==
    /\ proc' = "running"
    /\ ret'.op \in {"batch", "batch.put", "batch.del", "write"} \/ writing' = c
    /\ \/ \E x \in Outcomes : batch(c, x) \/ batchWrite(c, x)
       \/ \E k \in Keys : batchPut(c, k, VStr("x")) \/ batchDel(c, k)
       \/ writeAppend(c)

\* C8: what is staged on a batch is invisible to get() until write() has
\* returned true: no step from batch() up to the commit changes what get(k)
\* returns for any key.
C8_StagedInvisible ==
    [][\A c \in Ctrls :
          BatchStep(c)
             => \A d \in Ctrls, k \in Keys : Visible(d, k)' = Visible(d, k)]_vars

\* an unwritten batch holds a put whose value get() does not show
C8_Witness ==
    \E c \in Ctrls, k \in Keys :
        /\ m_opened[c] /\ m_batch[c] = "live" /\ ~bDone[c] /\ ~bStale[c]
        /\ \E i \in 1..Len(bOps[c]) : bOps[c][i] = PutOp(k, VStr("x"))
        /\ Visible(c, k) # VStr("x")

\* the step is an open by controller c of the database at path p
OpenOn(c, p) ==
    /\ ret'.op = "openDatabase" /\ ret'.c = c
    /\ toLocalFile(m_source'[c]) = p
    /\ \E o \in Options, e \in BadPathErrors :
          \/ componentComplete(c, o, e)
          \/ \E u \in Urls : setSource(c, u, o, e)

\* C9: no two controllers hold the same path open, and an open of a path
\* that another controller holds open fails with status IOError and
\* opened = false, leaving the holder's opened flag, status, handle and
\* stored map as they were.
C9_ExclusiveOpen ==
    [][ /\ \A c \in Ctrls, d \in Ctrls :
              (c # d /\ m_levelDB'[c] # NULL) => m_levelDB'[c] # m_levelDB'[d]
        /\ \A c \in Ctrls, d \in Ctrls, p \in Paths :
              (c # d /\ m_levelDB[d] = p /\ OpenOn(c, p))
                 => /\ ~m_opened'[c]
                    /\ m_status'[c] = "IOError"
                    /\ m_levelDB'[c] = NULL
                    /\ m_opened'[d] = m_opened[d]
                    /\ m_status'[d] = m_status[d]
                    /\ m_statusText'[d] = m_statusText[d]
                    /\ m_levelDB'[d] = p
                    /\ exists'[p] = exists[p]
                    /\ table'[p] = table[p] ]_vars

\* a controller has just failed with IOError to open the path that another
\* controller holds open with a stored value
C9_Witness ==
    \E c \in Ctrls, d \in Ctrls, p \in Paths, k \in Keys :
        /\ c # d
        /\ ret = Ret("openDatabase", c, RBool(FALSE))
        /\ toLocalFile(m_source[c]) = p
        /\ ~m_opened[c] /\ m_status[c] = "IOError"
        /\ m_opened[d] /\ m_levelDB[d] = p /\ m_status[d] = "Ok"
        /\ Visible(d, k) # Undefined

\* a handle holds path p when destroyDB(u) of controller c reaches the
\* engine: c releases its own handle first when u is its source
HeldAtDestroy(c, u, p) ==
    \E d \in Ctrls : m_levelDB[d] = p /\ ~(d = c /\ m_source[c] = u)

C11_DestroyOwn ==
    [][\A c \in Ctrls, u \in Urls :
          ( /\ ret'.op = "destroyDB" /\ ret'.c = c
            /\ m_opened[c] /\ m_source[c] = u
            /\ destroyDB(c, u) )
             => LET p == toLocalFile(u)
                IN  /\ ret'.val = RBool(TRUE)
                    /\ ~m_opened'[c]
                    /\ m_status'[c] = "Undefined"
                    /\ m_statusText'[c] = ""
                    /\ m_levelDB'[c] = NULL
                    /\ p \notin live'
                    /\ ~exists'[p]
                    /\ table'[p] = EmptyTable]_vars

\* a destroyDB of the controller's own source has just returned true: the
\* database it removed existed, and the controller is closed
C11_Witness ==
    \E c \in Ctrls :
        /\ ret = Ret("destroyDB", c, RBool(TRUE))
        /\ isLocalFile(m_source[c])
        /\ destroyed[toLocalFile(m_source[c])]
        /\ ~m_opened[c] /\ m_status[c] = "Undefined" /\ m_statusText[c] = ""

\* the step is an open by controller c of the database at path p under the
\* options o
OpenWith(c, p, o) ==
    /\ ret'.op = "openDatabase" /\ ret'.c = c
    /\ toLocalFile(m_source'[c]) = p
    /\ \E e \in BadPathErrors :
          \/ componentComplete(c, o, e)
          \/ \E u \in Urls : setSource(c, u, o, e)

\* C12: a database that a successful destroy removed holds nothing: until
\* an open creates it again it does not exist, an open with createIfMissing
\* false fails with status NotFound and opened false, and an open with
\* createIfMissing true yields a database where every get is not found.
C12_DestroyedGone ==
    [][ /\ \A p \in Paths :
              destroyed'[p] => (~exists'[p] /\ table'[p] = EmptyTable)
        /\ \A c \in Ctrls, p \in Paths, o \in Options :
              (destroyed[p] /\ OpenWith(c, p, o))
                 => IF o.createIfMissing
                    THEN /\ m_opened'[c]
                         /\ ret'.val = RBool(TRUE)
                         /\ \A k \in Keys : Visible(c, k)' = Undefined
                    ELSE /\ ~m_opened'[c]
                         /\ ret'.val = RBool(FALSE)
                         /\ m_status'[c] = "NotFound" ]_vars

\* an open of a destroyed database without createIfMissing has just failed
\* with NotFound
C12_Witness ==
    \E c \in Ctrls :
        /\ ret = Ret("openDatabase", c, RBool(FALSE))
        /\ isLocalFile(m_source[c])
        /\ destroyed[toLocalFile(m_source[c])]
        /\ ~m_opened[c] /\ m_status[c] = "NotFound"

\* the engine handles the controllers own
Owned == {m_levelDB[d] : d \in Ctrls} \ {NULL}

OpenedOn(c, p) ==
    /\ m_opened[c] /\ m_levelDB[c] = p /\ m_status[c] = "Ok"

\* C14 as stated: on a controller that is not Open every open request, a
\* setSource of the current source included, opens the database when the
\* engine's open succeeds.
C14_RetryAnyPath ==
    [][\A c \in Ctrls, o \in Options, e \in BadPathErrors, u \in Urls :
          ( /\ ret'.c = c
            /\ ~m_opened[c]
            /\ DBOpenStatus(ResetHandle(c), o, toLocalFile(u), e) = "ok"
            /\ setSource(c, u, o, e) )
             => OpenedOn(c, toLocalFile(u))']_vars

\* C14: on a controller that is not Open, a setSource of a URL other than
\* the current source and a componentComplete open the database when the
\* engine's open succeeds.
C14_Retry ==
    [][\A c \in Ctrls, u \in Urls :
          ( /\ ret'.c = c /\ ret'.op \in {"openDatabase", "setSource"}
            /\ m_source'[c] = u
            /\ ~m_opened[c] )
             => \A o \in Options, e \in BadPathErrors :
                   ( /\ DBOpenStatus(ResetHandle(c), o, toLocalFile(u), e) = "ok"
                     /\ \/ m_source[c] # u /\ setSource(c, u, o, e)
                        \/ componentComplete(c, o, e) )
                      => OpenedOn(c, toLocalFile(u))']_vars

\* an open has just returned true on a controller that had no handle when
\* its last batch() call returned no batch
C14_Witness ==
    \E c \in Ctrls :
        /\ ret = Ret("openDatabase", c, RBool(TRUE))
        /\ m_opened[c]
        /\ m_batch[c] = "scheduled"

\* the error classes of the engine and the taxonomy code of each
EngineErrors == {"notfound", "corruption", "ioerror", "invalidargument"}
TaxonomyCode(st) ==
    CASE st = "notfound"        -> "NotFound"
      [] st = "corruption"      -> "Corruption"
      [] st = "ioerror"         -> "IOError"
      [] st = "invalidargument" -> "InvalidArgument"

\* C15: after a failed open the controller is not opened, its status text
\* is the engine's message, and its status is the taxonomy code of the
\* engine's error class, never Ok and never Undefined.
C15_FailedStatus ==
    \A c \in Ctrls :
        ret = Ret("openDatabase", c, RBool(FALSE))
           => /\ ~m_opened[c]
              /\ m_statusText[c] # ""
              /\ \E st \in EngineErrors :
                    /\ m_statusText[c] = StatusToString(st)
                    /\ m_status[c] = TaxonomyCode(st)

\* C16: a get of a key without a value on an Open controller sets status
\* to NotFound and leaves opened true.
C16_MissStatus ==
    [][\A c \in Ctrls, k \in Keys, d \in Defaults :
          ( /\ ret'.op = "get" /\ ret'.c = c
            /\ m_opened[c]
            /\ m_levelDB[c] # NULL
            /\ table[m_levelDB[c]][toStdString(k)] = Absent
            /\ get(c, k, d) )
             => (m_status'[c] = "NotFound" /\ m_opened'[c])]_vars

C18_NoStaleUse ==
    [][\A c \in Ctrls :
          ( /\ bStale[c] /\ BatchAlive(c)
            /\ \E x \in Outcomes : batchWrite(c, x) )
             => /\ proc' = "running"
                /\ ret' = Ret("write", c, RBool(FALSE))
                /\ UNCHANGED <<diskVars, writing>>]_vars

\* C19: destroyDB and repairDB of a URL that is no local file return false
\* and change neither a database nor the controller.
C19_NonLocalFails ==
    [][\A c \in Ctrls, u \in Urls :
          ( /\ ret'.op \in {"destroyDB", "repairDB"} /\ ret'.c = c
            /\ ~isLocalFile(u)
            /\ \/ destroyDB(c, u)
               \/ \E ok \in BOOLEAN : repairDB(c, u, ok) )
             => /\ ret'.val = RBool(FALSE)
                /\ UNCHANGED <<ctrlVars, diskVars, live>>]_vars

\* C20: a setSource of the current source changes neither the controller,
\* its handle, its batch nor any database; a setSource of another URL and a
\* componentComplete reset and open; and a controller gets a handle by no
\* other step.
C20_SameSourceNoOp ==
    [][\A c \in Ctrls :
          /\ \A u \in Urls :
                ( /\ ret'.c = c /\ ret'.op \in {"setSource", "openDatabase"}
                  /\ m_source'[c] = u
                  /\ \E o \in Options, e \in BadPathErrors :
                        setSource(c, u, o, e) )
                   => IF m_source[c] = u
                      THEN /\ ret' = Ret("setSource", c, RVoid)
                           /\ UNCHANGED <<ctrlVars, batchVars, diskVars, live>>
                      ELSE /\ ret'.op = "openDatabase"
                           /\ m_levelDB[c] \notin live' \ {toLocalFile(u)}
          /\ ( /\ m_levelDB'[c] # NULL /\ m_levelDB'[c] # m_levelDB[c] )
                => \/ m_source'[c] # m_source[c]
                   \/ \E o \in Options, e \in BadPathErrors :
                         componentComplete(c, o, e) ]_vars

\* a setSource of the current source has just returned on an Open
\* controller whose database holds a value
C20_Witness ==
    \E c \in Ctrls, k \in Keys :
        /\ ret = Ret("setSource", c, RVoid)
        /\ m_opened[c] /\ m_status[c] = "Ok"
        /\ Visible(c, k) # Undefined

=============================================================================
